---- MODULE Spec2Model ----
(***************************************************************************)
(* helix-queries: the query endpoint (run / runExec / storeResult), the    *)
(* executor (execute, loadQuery) with its size-bounded row accumulation,   *)
(* and the template header parser (getExtraParameters).                    *)
(*                                                                         *)
(* JavaScript strings on which the code does character work (split,        *)
(* indexOf, substring, startsWith) are sequences of one-character strings. *)
(* A JavaScript object is a function from its keys; an absent key is a key *)
(* outside the DOMAIN.                                                     *)
(***************************************************************************)
EXTENDS Integers, Sequences, FiniteSets, TLC

VARIABLES
    request,    \* the HTTP request and its context: headers, data, pathname, invoker
    params,     \* context.data, the object run() mutates and hands to runExec
    pc,         \* position of the invocation
    execParams, \* 6th argument of execute: cleanRequestParams(params)
    calls,      \* external calls made so far, in order
    raised,     \* errors the collaborators raised so far: [stage, error]
    streamArgs, \* argument of dataset.createQueryStream, once created
    table,      \* row sizes the warehouse table can yield
    stream,     \* the query stream: "none", "open", "errored", "ended", "erroredEnded"
    emitted,    \* rows the stream has emitted so far (a row is its JSON size)
    results,    \* execute: const results = []
    avgsize,    \* execute: let avgsize = 0, kept as the fraction num / den
    promise,    \* the promise execute returns
    response,   \* the Response runExec returns
    bucket,     \* objects written to object storage
    log,        \* log.error lines
    body,       \* getExtraParameters: its argument
    extra,      \* getExtraParameters: its result
    stored,     \* what storeResult returned: "none" until it is called
    other       \* a second, concurrent invocation of execute: its own closure

vars == <<request, params, pc, execParams, calls, raised, streamArgs, table, stream,
          emitted, results, avgsize, promise, response, bucket, log,
          body, extra, stored, other>>

-----------------------------------------------------------------------------
(* Bounds *)

MaxRows == 13
MaxLines == 3

-----------------------------------------------------------------------------
(* JavaScript string primitives *)

\* String.prototype.startsWith
StartsWith(s, p) == Len(s) >= Len(p) /\ SubSeq(s, 1, Len(p)) = p

\* String.prototype.indexOf: 0-based index of the first occurrence, -1 if none
IndexOf(s, p) ==
    LET hits == {i \in 1..(Len(s) - Len(p) + 1) : SubSeq(s, i, i + Len(p) - 1) = p}
    IN IF hits = {} THEN -1
       ELSE (CHOOSE i \in hits : \A j \in hits : i <= j) - 1

\* String.prototype.substring(n)
Substring(s, n) == SubSeq(s, n + 1, Len(s))

\* String.prototype.split(sep), sep non-empty: "" splits to [""]
RECURSIVE Split(_, _)
Split(s, sep) ==
    LET i == IndexOf(s, sep)
    IN IF i = -1 THEN <<s>>
       ELSE <<SubSeq(s, 1, i)>> \o Split(Substring(s, i + Len(sep)), sep)

\* Array.prototype.pop's return value on a non-empty array
Pop(a) == a[Len(a)]

\* Array.prototype.join
RECURSIVE Join(_, _)
Join(a, sep) ==
    IF Len(a) = 0 THEN <<>>
    ELSE IF Len(a) = 1 THEN a[1]
    ELSE a[1] \o sep \o Join(Tail(a), sep)

\* JavaScript truthiness of a string
Truthy(s) == s # <<>>

-----------------------------------------------------------------------------
(* sendquery.js: getExtraParameters *)

Digits == {"0", "1", "2", "3", "4", "5", "6", "7", "8", "9"}

DigitValue(c) ==
    CASE c = "0" -> 0 [] c = "1" -> 1 [] c = "2" -> 2 [] c = "3" -> 3 [] c = "4" -> 4
      [] c = "5" -> 5 [] c = "6" -> 6 [] c = "7" -> 7 [] c = "8" -> 8 [] c = "9" -> 9

\* A property key that is a canonical array index ("0", "7", "12"; the keys of
\* the model stay far below the 2^32 - 1 limit): such keys of an ordinary
\* object are enumerated first, in ascending numeric order.
IsArrayIndex(k) ==
    /\ Len(k) > 0
    /\ \A i \in 1..Len(k) : k[i] \in Digits
    /\ (Len(k) = 1 \/ k[1] # "0")

RECURSIVE ToNat(_)
ToNat(k) == IF Len(k) = 0 THEN 0
            ELSE 10 * ToNat(SubSeq(k, 1, Len(k) - 1)) + DigitValue(k[Len(k)])

\* One element of the mapped array, val = e.substring(4).split(': '), as the
\* property it sets: acc[val[0]] = val[1], where val[1] is undefined (no value
\* field) when the split found no ': '.
Entry(val) == IF Len(val) >= 2 THEN [key |-> val[1], value |-> val[2]]
              ELSE [key |-> val[1]]

KeyProto == <<"_", "_", "p", "r", "o", "t", "o", "_", "_">>

\* acc[key] = value on an ordinary object, the object being the sequence of its
\* own properties in enumeration order: an existing key keeps its place, a new
\* array-index key goes among the index keys in numeric order, any other new
\* key goes last. The key __proto__ is the prototype accessor: assigning it a
\* string or undefined creates no property.
SetProperty(acc, e) ==
    IF e.key = KeyProto THEN acc
    ELSE IF \E i \in 1..Len(acc) : acc[i].key = e.key
    THEN [i \in 1..Len(acc) |-> IF acc[i].key = e.key THEN e ELSE acc[i]]
    ELSE IF IsArrayIndex(e.key)
    THEN LET p == Cardinality({i \in 1..Len(acc) :
                      IsArrayIndex(acc[i].key) /\ ToNat(acc[i].key) < ToNat(e.key)})
         IN SubSeq(acc, 1, p) \o <<e>> \o SubSeq(acc, p + 1, Len(acc))
    ELSE Append(acc, e)

RECURSIVE Reduce(_, _)
Reduce(vals, acc) ==
    IF Len(vals) = 0 THEN acc
    ELSE Reduce(Tail(vals), SetProperty(acc, Entry(Head(vals))))

Marker == <<"-", "-", "-">>

IsMarked(e) == StartsWith(e, Marker)

HasColon(e) == IndexOf(e, <<":">>) > 0

\* a variant that cuts the marker only, not the character after it
SplitEntryOffsetThree(e) == Split(Substring(e, 3), <<":", " ">>)

SplitEntry(e) == Split(Substring(e, 4), <<":", " ">>)

getExtraParameters(query) ==
    LET lines == Split(query, <<"\n">>)
        marked == SelectSeq(lines, IsMarked)
        colon == SelectSeq(marked, HasColon)
        vals == [i \in 1..Len(colon) |-> SplitEntry(colon[i])]
    IN Reduce(vals, <<>>)

-----------------------------------------------------------------------------
(* Template lines the parser is applied to *)

LineKeyA == <<"-", "-", "-", " ", "a", ":", " ", "x">>
LineKeyB == <<"-", "-", "-", " ", "b", ":", " ", "y">>
LineKeyAAgain == <<"-", "-", "-", " ", "a", ":", " ", "y">>
LineKeyDigit == <<"-", "-", "-", " ", "1", ":", " ", "x">>
LineSqlComment == <<"-", "-", " ", "a", ":", " ", "x">>
LineNoColon == <<"-", "-", "-", " ", "a", "b">>
LineNoSeparator == <<"-", "-", "-", "a", ":", " ", "x">>
LineTwoDelimiters == <<"-", "-", "-", " ", "a", ":", " ", "x", ":", " ", "y">>
LineColonNoSpace == <<"-", "-", "-", " ", "a", ":", "x">>
LineMarkerless == <<"b", ":", " ", "y">>
LineKeyProto == <<"-", "-", "-", " ", "_", "_", "p", "r", "o", "t", "o", "_", "_", ":", " ", "x">>
LineEmpty == <<>>

LineSet == {LineKeyA, LineKeyB, LineKeyAAgain, LineKeyDigit, LineSqlComment,
            LineNoColon, LineNoSeparator, LineTwoDelimiters, LineColonNoSpace,
            LineMarkerless, LineKeyProto, LineEmpty}

Bodies == {Join(ls, <<"\n">>) : ls \in UNION {[1..n -> LineSet] : n \in 0..MaxLines}}

-----------------------------------------------------------------------------
(* Parameter names and values *)

KeyDomainkey == <<"d", "o", "m", "a", "i", "n", "k", "e", "y">>
KeyUrl == <<"u", "r", "l">>
KeyLimit == <<"l", "i", "m", "i", "t">>
KeyOffset == <<"o", "f", "f", "s", "e", "t">>
KeyGoogleClientEmail == <<"G", "O", "O", "G", "L", "E", "_", "C", "L", "I", "E", "N", "T", "_", "E", "M", "A", "I", "L">>
KeyGooglePrivateKey == <<"G", "O", "O", "G", "L", "E", "_", "P", "R", "I", "V", "A", "T", "E", "_", "K", "E", "Y">>
KeyGoogleProjectId == <<"G", "O", "O", "G", "L", "E", "_", "P", "R", "O", "J", "E", "C", "T", "_", "I", "D">>

CredentialKeys == {KeyGoogleClientEmail, KeyGooglePrivateKey, KeyGoogleProjectId}

\* context.env
Env == [k \in CredentialKeys |->
          CASE k = KeyGoogleClientEmail -> <<"e", "@", "x">>
            [] k = KeyGooglePrivateKey -> <<"p", "k">>
            [] k = KeyGoogleProjectId -> <<"p", "r", "j">>]

\* the fallback literal of run()
Secret == <<"s", "e", "c", "r", "e", "t">>

\* obj with obj[k] = v set
With(obj, k, v) == [x \in DOMAIN obj \cup {k} |-> IF x = k THEN v ELSE obj[x]]

\* obj after delete obj[k]
Without(obj, k) == [x \in DOMAIN obj \ {k} |-> obj[x]]

-----------------------------------------------------------------------------
(* The query catalog: src/queries/<name>.sql *)

RumAttributionSql ==
    Join(<<<<"-", "-", "-", " ", "u", "r", "l", ":", " ", "-">>,
           <<"-", "-", "-", " ", "l", "i", "m", "i", "t", ":", " ", "1", "0", "0">>,
           <<"-", "-", "-", " ", "o", "f", "f", "s", "e", "t", ":", " ", "0">>,
           <<"-", "-", "-", " ", "d", "o", "m", "a", "i", "n", "k", "e", "y", ":", " ", "s", "e", "c", "r", "e", "t">>,
           <<>>,
           <<"#", " ", "h", "l", "x", ":", "m", "e", "t", "a", "d", "a", "t", "a">>,
           <<"S", "E", "L", "E", "C", "T", " ", "C", "O", "U", "N", "T">>,
           <<>>,
           <<"S", "E", "L", "E", "C", "T">>>>, <<"\n">>)

RumPageviewsSql ==
    Join(<<<<"-", "-", "-", " ", "u", "r", "l", ":", " ", "-">>,
           <<"-", "-", "-", " ", "l", "i", "m", "i", "t", ":", " ", "1", "0", "0">>,
           <<"-", "-", "-", " ", "o", "f", "f", "s", "e", "t", ":", " ", "0">>,
           <<>>,
           <<"S", "E", "L", "E", "C", "T">>>>, <<"\n">>)

Catalog == [q \in {"rum-attribution", "rum-pageviews"} |->
              IF q = "rum-attribution" THEN RumAttributionSql ELSE RumPageviewsSql]

\* fs.readFileSync(.../queries/<query>.sql).toString(): the text, or the
\* ENOENT error readFileSync throws (an Error without statusCode)
loadQuery(query) ==
    IF query \in DOMAIN Catalog
    THEN [ok |-> TRUE, text |-> Catalog[query]]
    ELSE [ok |-> FALSE, error |-> [message |-> <<"ENOENT: no such file or directory">>,
                                   code |-> "ENOENT"]]

-----------------------------------------------------------------------------
(* Requests *)

Headers == {<<>>, <<"k", "1">>, <<"B", "e", "a", "r", "e", "r", " ", "k", "1">>, <<"a", " ", " ", "k", "1">>,
            <<"a", " ", "b", " ", "k", "2">>}

HeaderMaps == {<<>>} \cup {[h \in {"authorization"} |-> v] : v \in Headers}

CallerKeys == {<<>>, <<"k", "3">>}

CallerUrls == {<<"e", "x", "a", "m", "p", "l", "e", ".", "c", "o", "m">>}

\* context.data as the caller sent it
DataMaps ==
    {<<>>}
    \cup {[k \in {KeyDomainkey} |-> v] : v \in CallerKeys}
    \cup {[k \in {KeyUrl} |-> v] : v \in CallerUrls}
    \cup {[k \in {KeyDomainkey, KeyUrl} |->
             IF k = KeyDomainkey THEN f[1] ELSE f[2]] : f \in CallerKeys \X CallerUrls}

Queries == {"rum-attribution", "rum-pageviews", "nope"}

Extensions == {".json", ".csv", ".chart", ".txt"}

Invokers == {"helix3/admin", "undefined"}

Requests == [headers : HeaderMaps, data : DataMaps, query : Queries,
             ext : Extensions, invoker : Invokers]

\* errors the credential provider and the warehouse client can raise: with
\* and without a statusCode
Errors == {[message |-> <<"bad", "\n", "row">>],
           [message |-> <<"denied">>, statusCode |-> 403]}

-----------------------------------------------------------------------------
(* index.js: run *)

\* a variant that takes the first token of the header, not the last
ResolveDomainkeyFirstToken(req) ==
    IF "authorization" \in DOMAIN req.headers
    THEN Head(Split(req.headers["authorization"], <<" ">>))
    ELSE IF KeyDomainkey \in DOMAIN req.data /\ Truthy(req.data[KeyDomainkey])
         THEN req.data[KeyDomainkey]
         ELSE Secret

\* request.headers.has('authorization')
\*   ? request.headers.get('authorization').split(' ').pop()
\*   : params.domainkey || 'secret'
ResolveDomainkey(req) ==
    IF "authorization" \in DOMAIN req.headers
    THEN Pop(Split(req.headers["authorization"], <<" ">>))
    ELSE IF KeyDomainkey \in DOMAIN req.data /\ Truthy(req.data[KeyDomainkey])
         THEN req.data[KeyDomainkey]
         ELSE Secret

PreparedParams(req) ==
    LET withKey == With(req.data, KeyDomainkey, ResolveDomainkey(req))
    IN [k \in DOMAIN withKey \cup CredentialKeys |->
          IF k \in CredentialKeys THEN Env[k] ELSE withKey[k]]

Run ==
    /\ pc = "run"
    /\ params' = PreparedParams(request)
    /\ pc' = "runExec"
    /\ UNCHANGED <<raised, request, execParams, calls, streamArgs, table, stream, emitted,
                   results, avgsize, promise, response, bucket, log, body, extra, stored, other>>

-----------------------------------------------------------------------------
(* index.js: the catch of runExec *)

\* characters a header value cannot carry
ControlCharacters == {"\n", "\r"}

\* cleanupHeaderValue: the value without the characters outside tab and the
\* printable ranges
cleanupHeaderValue(value) == SelectSeq(value, LAMBDA c : c \notin ControlCharacters)

\* a variant that answers 500 whatever the error carries
ErrorResponseAlways500(e) ==
    [kind |-> "error",
     status |-> 500,
     body |-> e.message,
     xerror |-> cleanupHeaderValue(e.message)]

\* new Response(e.message, {status: e.statusCode || 500,
\*                          headers: {'x-error': cleanupHeaderValue(e.message)}})
ErrorResponse(e) ==
    [kind |-> "error",
     status |-> IF "statusCode" \in DOMAIN e /\ e.statusCode # 0
                THEN e.statusCode ELSE 500,
     body |-> e.message,
     xerror |-> cleanupHeaderValue(e.message)]

-----------------------------------------------------------------------------
(* util.js, and the part of the result envelope sendquery.js of this tree
   does not build *)

\* cleanRequestParams: the request parameters without the service credentials
cleanRequestParams(p) == [k \in DOMAIN p \ CredentialKeys |-> p[k]]

\* the envelope's requestParams: the parameter set the query was bound to
EnvelopeRequestParams(bound) == bound

\* queryInfo: the declared parameter documentation of the template; its
\* failure to read the template lands in the catch of runExec
queryInfo(query) ==
    LET q == loadQuery(query)
    IN IF q.ok
       THEN [kind |-> "info", status |-> 200, body |-> getExtraParameters(q.text)]
       ELSE ErrorResponse(q.error)

\* sshonify: the JSON body
sshonify(rows, requestParams, truncated) ==
    [results |-> rows, requestParams |-> requestParams, truncated |-> truncated]

-----------------------------------------------------------------------------
(* index.js: runExec, up to the call of execute *)

\* a variant without the early return for .txt
RunExecNoInfo ==
    /\ pc = "runExec"
    /\ execParams' = cleanRequestParams(params)
    /\ pc' = "auth"
    /\ UNCHANGED <<raised, request, params, calls, streamArgs, table, stream, emitted,
                   results, avgsize, promise, response, bucket, log, body, extra, stored, other>>

RunExec ==
    /\ pc = "runExec"
    /\ IF request.ext = ".txt"
       THEN /\ response' = queryInfo(request.query)
            /\ pc' = "done"
            /\ UNCHANGED execParams
       ELSE /\ execParams' = cleanRequestParams(params)
            /\ pc' = "auth"
            /\ UNCHANGED response
    /\ UNCHANGED <<raised, request, params, calls, streamArgs, table, stream, emitted,
                   results, avgsize, promise, bucket, log, body, extra, stored, other>>

-----------------------------------------------------------------------------
(* sendquery.js: execute *)

\* catch (e) { throw new Error(`Unable to execute Google Query: ${e.message}`) }
Wrapped(e) == [message |-> <<"Unable to execute Google Query: ">> \o e.message]

\* a variant in which the last resolve / reject wins
SettleLastWins(p, outcome) == outcome

\* resolve / reject: a settled promise stays as it is
Settle(p, outcome) == IF p.state = "pending" THEN outcome ELSE p

\* const credentials = await auth(email, key)
Auth ==
    /\ pc = "auth"
    /\ calls' = Append(calls, "auth")
    /\ \/ /\ pc' = "dataset"
          /\ UNCHANGED <<promise, raised>>
       \/ \E e \in Errors :
            /\ raised' = Append(raised, [stage |-> "auth", error |-> e])
            /\ promise' = [state |-> "rejected", error |-> Wrapped(e)]
            /\ pc' = "awaitExecute"
    /\ UNCHANGED <<request, params, execParams, streamArgs, table, stream, emitted,
                   results, avgsize, response, bucket, log, body, extra, stored, other>>

\* const [dataset] = await bq.dataset(...).get()
DatasetGet ==
    /\ pc = "dataset"
    /\ calls' = Append(calls, "dataset.get")
    /\ \/ /\ pc' = "executor"
          /\ UNCHANGED <<promise, raised>>
       \/ \E e \in Errors :
            /\ raised' = Append(raised, [stage |-> "dataset.get", error |-> e])
            /\ promise' = [state |-> "rejected", error |-> Wrapped(e)]
            /\ pc' = "awaitExecute"
    /\ UNCHANGED <<request, params, execParams, streamArgs, table, stream, emitted,
                   results, avgsize, response, bucket, log, body, extra, stored, other>>

\* parseInt(s, 10) of a parameter that may be absent: the number its leading
\* digits spell, NaN when there is none
ParseInt(obj, k) ==
    IF k \notin DOMAIN obj THEN [nan |-> TRUE]
    ELSE LET s == obj[k]
             n == Cardinality({i \in 1..Len(s) : \A j \in 1..i : s[j] \in Digits})
         IN IF n = 0 THEN [nan |-> TRUE] ELSE [value |-> ToNat(SubSeq(s, 1, n))]

\* the parameter map execute hands to createQueryStream
BoundParams(p) == p

\* the promise executor: loadQuery, then dataset.createQueryStream. An
\* exception of loadQuery inside the executor rejects the promise; the
\* promise is returned, not awaited, so execute's catch does not see it.
Executor ==
    /\ pc = "executor"
    /\ LET q == loadQuery(request.query)
       IN IF q.ok
          THEN /\ calls' = calls \o <<"loadQuery", "createQueryStream">>
               /\ streamArgs' = [created |-> TRUE,
                                 query |-> q.text,
                                 maxResults |-> ParseInt(execParams, KeyLimit),
                                 params |-> BoundParams(execParams)]
               /\ stream' = "open"
               /\ UNCHANGED <<promise, raised>>
          ELSE /\ calls' = Append(calls, "loadQuery")
               /\ raised' = Append(raised, [stage |-> "loadQuery", error |-> q.error])
               /\ promise' = [state |-> "rejected", error |-> q.error]
               /\ UNCHANGED <<streamArgs, stream>>
    /\ pc' = "awaitExecute"
    /\ UNCHANGED <<request, params, execParams, table, emitted, results, avgsize,
                   response, bucket, log, body, extra, stored, other>>

RECURSIVE Sum(_)
Sum(rows) == IF Len(rows) = 0 THEN 0 ELSE Head(rows) + Sum(Tail(rows))

\* json-size of an array of rows: the bytes of JSON.stringify, that is the
\* rows, the commas between them and the two brackets
JsonSize(rows) == IF Len(rows) = 0 THEN 2 ELSE 2 + Sum(rows) + (Len(rows) - 1)

\* a variant that samples the average again after every row from the 10th on
SampledAvgsizeEveryRow(rows, avg) ==
    IF Len(rows) >= 10 THEN [num |-> JsonSize(rows), den |-> Len(rows)] ELSE avg

\* a variant that samples the average from the first row on
SampledAvgsizeFromFirstRow(rows, avg) ==
    IF Len(rows) \in 1..10 THEN [num |-> JsonSize(rows), den |-> Len(rows)] ELSE avg

\* spaceleft, first statement: if (results.length === 10) avgsize = size / length
SampledAvgsize(rows, avg) ==
    IF Len(rows) = 10 THEN [num |-> JsonSize(rows), den |-> Len(rows)] ELSE avg

\* a variant that counts the arriving row among the accumulated ones
spaceleftCountingArrival(rows, avg) ==
    ~(avg.num * (Len(rows) + 1) * 10 > 1024 * 1024 * 9 * avg.den)

\* spaceleft, result: !(avgsize * results.length > 1024 * 1024 * 0.9), both
\* sides multiplied by 10 * den
spaceleft(rows, avg) ==
    ~(avg.num * Len(rows) * 10 > 1024 * 1024 * 9 * avg.den)

\* a variant that keeps the row whose arrival triggers the truncation
DataKeepsTrigger ==
    /\ stream = "open"
    /\ Len(emitted) < MaxRows
    /\ \E row \in table :
         /\ emitted' = Append(emitted, row)
         /\ avgsize' = SampledAvgsize(results, avgsize)
         /\ results' = Append(results, row)
         /\ IF spaceleft(results, avgsize')
            THEN UNCHANGED promise
            ELSE promise' = Settle(promise, [state |-> "resolved", truncated |-> TRUE])
    /\ UNCHANGED <<raised, request, params, pc, execParams, calls, streamArgs, table, stream,
                   response, bucket, log, body, extra, stored, other>>

\* .on('data', row => spaceleft() ? results.push(row) : resolve({truncated: true, results}))
Data ==
    /\ stream = "open"
    /\ Len(emitted) < MaxRows
    /\ \E row \in table :
         /\ emitted' = Append(emitted, row)
         /\ avgsize' = SampledAvgsize(results, avgsize)
         /\ IF spaceleft(results, avgsize')
            THEN /\ results' = Append(results, row)
                 /\ UNCHANGED promise
            ELSE /\ promise' = Settle(promise, [state |-> "resolved", truncated |-> TRUE])
                 /\ UNCHANGED results
    /\ UNCHANGED <<raised, request, params, pc, execParams, calls, streamArgs, table, stream,
                   response, bucket, log, body, extra, stored, other>>

\* .on('error', e => reject(e))
StreamError ==
    /\ stream = "open"
    /\ \E e \in Errors :
         /\ raised' = Append(raised, [stage |-> "stream", error |-> e])
         /\ promise' = Settle(promise, [state |-> "rejected", error |-> e])
    /\ stream' = "errored"
    /\ UNCHANGED <<request, params, pc, execParams, calls, streamArgs, table, emitted,
                   results, avgsize, response, bucket, log, body, extra, stored, other>>

\* .on('end', () => resolve({truncated: false, results}))
End ==
    /\ stream \in {"open", "errored"}
    /\ promise' = Settle(promise, [state |-> "resolved", truncated |-> FALSE])
    /\ stream' = IF stream = "open" THEN "ended" ELSE "erroredEnded"
    /\ UNCHANGED <<raised, request, params, pc, execParams, calls, streamArgs, table, emitted,
                   results, avgsize, response, bucket, log, body, extra, stored, other>>

\* a second invocation of execute, running while the first one streams: the
\* same handlers over the results, avgsize and promise of its own closure

\* a variant in which avgsize is one variable shared by the invocations
OtherDataSharedAvgsize ==
    /\ other.stream = "open"
    /\ Len(other.emitted) < MaxRows
    /\ \E row \in other.table :
         /\ avgsize' = SampledAvgsize(other.results, avgsize)
         /\ other' = IF spaceleft(other.results, avgsize')
                     THEN [other EXCEPT !.emitted = Append(@, row),
                                        !.results = Append(@, row)]
                     ELSE [other EXCEPT !.emitted = Append(@, row),
                                        !.promise = Settle(@, [state |-> "resolved",
                                                               truncated |-> TRUE])]
    /\ UNCHANGED <<raised, request, params, pc, execParams, calls, streamArgs, table, stream,
                   emitted, results, promise, response, bucket, log, body, extra, stored>>

\* .on('data', ...) of the second invocation
OtherData ==
    /\ other.stream = "open"
    /\ Len(other.emitted) < MaxRows
    /\ \E row \in other.table :
         LET sampled == SampledAvgsize(other.results, other.avgsize)
         IN other' = IF spaceleft(other.results, sampled)
                     THEN [other EXCEPT !.emitted = Append(@, row),
                                        !.avgsize = sampled,
                                        !.results = Append(@, row)]
                     ELSE [other EXCEPT !.emitted = Append(@, row),
                                        !.avgsize = sampled,
                                        !.promise = Settle(@, [state |-> "resolved",
                                                               truncated |-> TRUE])]
    /\ UNCHANGED <<raised, request, params, pc, execParams, calls, streamArgs, table, stream,
                   emitted, results, avgsize, promise, response, bucket, log, body, extra, stored>>

\* .on('error', ...) of the second invocation
OtherStreamError ==
    /\ other.stream = "open"
    /\ \E e \in Errors :
         other' = [other EXCEPT !.stream = "errored",
                                !.promise = Settle(@, [state |-> "rejected", error |-> e])]
    /\ UNCHANGED <<raised, request, params, pc, execParams, calls, streamArgs, table, stream,
                   emitted, results, avgsize, promise, response, bucket, log, body, extra, stored>>

\* .on('end', ...) of the second invocation
OtherEnd ==
    /\ other.stream \in {"open", "errored"}
    /\ other' = [other EXCEPT !.stream = IF @ = "open" THEN "ended" ELSE "erroredEnded",
                              !.promise = Settle(@, [state |-> "resolved",
                                                     truncated |-> FALSE])]
    /\ UNCHANGED <<raised, request, params, pc, execParams, calls, streamArgs, table, stream,
                   emitted, results, avgsize, promise, response, bucket, log, body, extra, stored>>

-----------------------------------------------------------------------------
(* index.js: storeResult and the rest of runExec *)

STORED_QUERIES == {"rum-pageviews"}

\* a variant whose guard returns early only when both conditions fail
StoreAllowedEither(query, invoker) ==
    ~(query \notin STORED_QUERIES /\ invoker # "helix3/admin")

\* the guard of storeResult: true when the archival write is attempted
StoreAllowed(query, invoker) ==
    ~(query \notin STORED_QUERIES \/ invoker # "helix3/admin")

\* a variant that leaves requestParams as execute returned it
RedactedNothing(requestParams) == requestParams

\* delete requestParams.domainkey
Redacted(requestParams) == Without(requestParams, KeyDomainkey)

\* the error bucket.put rejects with when the write fails
PutError == [message |-> <<"put failed">>]

\* a variant of storeResult without the try / catch around the put
storeResultRethrows(query, result, invoker, putOk) ==
    IF ~StoreAllowed(query, invoker)
    THEN [returned |-> FALSE, thrown |-> FALSE, called |-> <<>>, put |-> <<>>,
          logged |-> <<>>]
    ELSE IF putOk
    THEN [returned |-> TRUE, thrown |-> FALSE, called |-> <<"bucket.put">>,
          put |-> <<[query |-> query, content |-> result]>>, logged |-> <<>>]
    ELSE [returned |-> FALSE, thrown |-> TRUE, called |-> <<"bucket.put">>,
          put |-> <<>>, logged |-> <<>>]

\* storeResult: what it returns, the put it makes (putOk: the write succeeds),
\* what it stores and what it logs; it never throws on a failed put
storeResult(query, result, invoker, putOk) ==
    IF ~StoreAllowed(query, invoker)
    THEN [returned |-> FALSE, thrown |-> FALSE, called |-> <<>>, put |-> <<>>,
          logged |-> <<>>]
    ELSE IF putOk
    THEN [returned |-> TRUE, thrown |-> FALSE, called |-> <<"bucket.put">>,
          put |-> <<[query |-> query, content |-> result]>>, logged |-> <<>>]
    ELSE [returned |-> FALSE, thrown |-> FALSE, called |-> <<"bucket.put">>,
          put |-> <<>>, logged |-> <<"failed to store result">>]

\* runExec from the settlement of execute's promise on: the catch for a
\* rejection, else the response by extension; on the JSON path the redaction,
\* sshonify, storeResult and the 200; a throw of storeResult would land in
\* the catch
RunExecResume ==
    /\ pc = "awaitExecute"
    /\ promise.state # "pending"
    /\ pc' = "done"
    /\ IF promise.state = "rejected"
       THEN /\ response' = ErrorResponse(promise.error)
            /\ UNCHANGED <<calls, bucket, log, stored>>
       ELSE IF request.ext = ".csv"
       THEN /\ response' = [kind |-> "csv", status |-> 200, body |-> results]
            /\ UNCHANGED <<calls, bucket, log, stored>>
       ELSE IF request.ext = ".chart"
       THEN /\ response' = [kind |-> "chart", status |-> 307, body |-> results]
            /\ UNCHANGED <<calls, bucket, log, stored>>
       ELSE \E putOk \in BOOLEAN :
              LET requestParams == Redacted(EnvelopeRequestParams(execParams))
                  result == sshonify(results, requestParams, promise.truncated)
                  outcome == storeResult(request.query, result, request.invoker, putOk)
              IN /\ calls' = calls \o outcome.called
                 /\ bucket' = bucket \o outcome.put
                 /\ log' = log \o outcome.logged
                 /\ IF outcome.thrown
                    THEN /\ response' = ErrorResponse(PutError)
                         /\ stored' = "thrown"
                    ELSE /\ response' = [kind |-> "json", status |-> 200, body |-> result]
                         /\ stored' = IF outcome.returned THEN "true" ELSE "false"
    /\ UNCHANGED <<raised, request, params, execParams, streamArgs, table, stream,
                   emitted, results, avgsize, promise, body, extra, other>>

-----------------------------------------------------------------------------
(* sendquery.js: getExtraParameters applied to a template body *)

Parse ==
    /\ pc = "parse"
    /\ extra' = getExtraParameters(body)
    /\ pc' = "parsed"
    /\ UNCHANGED <<raised, request, params, execParams, calls, streamArgs, table, stream,
                   emitted, results, avgsize, promise, response, bucket, log, body, stored, other>>

-----------------------------------------------------------------------------
(* Specifications *)

\* no second invocation
IdleInvocation == [stream |-> "none"]

\* the state of an invocation as run() is entered
PipelineFresh(req, rows) ==
    /\ stored = "none"
    /\ other = IdleInvocation
    /\ request = req
    /\ params = req.data
    /\ execParams = <<>>
    /\ calls = <<>>
    /\ raised = <<>>
    /\ streamArgs = [created |-> FALSE]
    /\ table = rows
    /\ stream = "none"
    /\ emitted = <<>>
    /\ results = <<>>
    /\ avgsize = [num |-> 0, den |-> 1]
    /\ promise = [state |-> "pending"]
    /\ response = [kind |-> "none"]
    /\ bucket = <<>>
    /\ log = <<>>

Fresh(req, rows) ==
    /\ PipelineFresh(req, rows)
    /\ pc = "run"
    /\ body = <<>>
    /\ extra = <<>>

Next ==
    \/ Run
    \/ RunExec
    \/ Auth
    \/ DatasetGet
    \/ Executor
    \/ Data
    \/ StreamError
    \/ End
    \/ RunExecResume

\* every request, against tables of uniform rows
Init == \E req \in Requests : \E rows \in {{1000}, {200000}} : Fresh(req, rows)

Spec == Init /\ [][Next]_vars

\* one JSON request, against a table of small and large rows
ExecRequest ==
    [headers |-> <<>>, data |-> [k \in {KeyUrl} |-> <<"e", "x", "a", "m", "p", "l", "e", ".", "c", "o", "m">>],
     query |-> "rum-attribution", ext |-> ".json", invoker |-> "undefined"]

InitExec == Fresh(ExecRequest, {1000, 200000})

SpecExec == InitExec /\ [][Next]_vars

\* the parser alone, on every body of up to MaxLines lines
InitParse ==
    /\ PipelineFresh(ExecRequest, {1000})
    /\ pc = "parse"
    /\ body \in Bodies
    /\ extra = <<>>

NextParse == Parse

SpecParse == InitParse /\ [][NextParse]_vars

\* two invocations of execute for the same query, both past
\* createQueryStream, each on a table of uniform rows; their stream events
\* interleave in every order
StreamingInvocation(rows) ==
    [table |-> rows, stream |-> "open", emitted |-> <<>>, results |-> <<>>,
     avgsize |-> [num |-> 0, den |-> 1], promise |-> [state |-> "pending"]]

InitPair ==
    /\ request = ExecRequest
    /\ params = PreparedParams(ExecRequest)
    /\ execParams = cleanRequestParams(params)
    /\ calls = <<"auth", "dataset.get", "loadQuery", "createQueryStream">>
    /\ raised = <<>>
    /\ streamArgs = [created |-> TRUE,
                     query |-> loadQuery(ExecRequest.query).text,
                     maxResults |-> ParseInt(execParams, KeyLimit),
                     params |-> BoundParams(execParams)]
    /\ table \in {{1000}, {200000}}
    /\ stream = "open"
    /\ emitted = <<>>
    /\ results = <<>>
    /\ avgsize = [num |-> 0, den |-> 1]
    /\ promise = [state |-> "pending"]
    /\ response = [kind |-> "none"]
    /\ bucket = <<>>
    /\ log = <<>>
    /\ stored = "none"
    /\ pc = "awaitExecute"
    /\ body = <<>>
    /\ extra = <<>>
    /\ \E rows \in {{1000}, {200000}} : other = StreamingInvocation(rows)

NextPair ==
    \/ Data
    \/ StreamError
    \/ End
    \/ OtherData
    \/ OtherStreamError
    \/ OtherEnd

SpecPair == InitPair /\ [][NextPair]_vars

-----------------------------------------------------------------------------
(* Truncation: C1, C2, C3 *)

\* the serialized size of the first n emitted rows exceeds 1024 * 1024 * 0.9
CumulativeExceeds(n) == JsonSize(SubSeq(emitted, 1, n)) * 10 > 1024 * 1024 * 9

\* the row at which the cumulative serialized size first exceeds the budget,
\* 0 when it never does
FirstCrossing ==
    LET over == {n \in 1..Len(emitted) : CumulativeExceeds(n)}
    IN IF over = {} THEN 0 ELSE CHOOSE n \in over : \A m \in over : n <= m

\* the sampled estimate, (size of the first 10 rows / 10) * n, exceeds the budget
EstimateExceeds(n) ==
    n >= 10 /\ JsonSize(SubSeq(emitted, 1, 10)) * n > 1024 * 1024 * 9

\* the row counts n at which a data event arrived (row n + 1 was emitted) while
\* the estimate over the n accumulated rows exceeded the budget
EstimateCrossings == {n \in 10..(Len(emitted) - 1) : EstimateExceeds(n)}

\* C1, as stated: a stream that ended without error and whose cumulative
\* serialized size first exceeded the budget at row k > 10 resolved with
\* truncated = true and at most k rows.
C1_AsStated ==
    (stream = "ended" /\ raised = <<>> /\ FirstCrossing > 10)
        => /\ promise.state = "resolved"
           /\ promise.truncated
           /\ Len(results) <= FirstCrossing

\* C1, amended: when a data event arrives while results holds k >= 10 rows and
\* the sampled estimate (size of the first 10 rows / 10) * k exceeds the budget,
\* k the first such count, the promise is resolved with truncated = true and
\* results holds exactly the first k rows.
C1_TruncatesAtEstimate ==
    EstimateCrossings # {}
        => LET k == CHOOSE n \in EstimateCrossings : \A m \in EstimateCrossings : n <= m
           IN /\ promise.state = "resolved"
              /\ promise.truncated
              /\ results = SubSeq(emitted, 1, k)

\* a truncation at 12 rows, later than the cumulative size crossed the budget
C1_Witness ==
    /\ promise.state = "resolved"
    /\ promise.truncated
    /\ Len(results) = 12
    /\ FirstCrossing = 11
    /\ pc = "done"

\* C2, as stated: a stream whose total serialized size never exceeds the
\* budget and that ended without error resolved with truncated = false and
\* every emitted row in results.
C2_AsStated ==
    (stream = "ended" /\ raised = <<>> /\ ~CumulativeExceeds(Len(emitted)))
        => /\ promise.state = "resolved"
           /\ ~promise.truncated
           /\ results = emitted

\* C2, amended: a stream that ended without error and on which no data event
\* arrived while the sampled estimate exceeded the budget resolved with
\* truncated = false and every emitted row in results.
C2_CompleteUnlessEstimate ==
    (stream = "ended" /\ raised = <<>> /\ EstimateCrossings = {})
        => /\ promise.state = "resolved"
           /\ ~promise.truncated
           /\ results = emitted

\* a stream of more than 10 rows, large ones among them, returned whole
C2_Witness ==
    /\ stream = "ended"
    /\ promise.state = "resolved"
    /\ ~promise.truncated
    /\ Len(results) = 12
    /\ results = emitted
    /\ \E i \in 1..10 : results[i] = 200000
    /\ response.kind = "json"
    /\ response.body.results = emitted

\* C3, as stated: once the truncation policy has fired, the stream is stopped:
\* no further data event of the stream is received.
C3_AsStated ==
    [][(promise.state = "resolved" /\ promise.truncated) => emitted' = emitted]_vars

-----------------------------------------------------------------------------
(* Order of the stages: C4 *)

WarehouseCalls == {"dataset.get", "createQueryStream"}

\* C4, as stated: for a query name without a template no warehouse call
\* (dataset lookup, query stream creation) is made, and in every run a
\* warehouse call is preceded by the loading of the template.
C4_AsStated ==
    /\ request.query \notin DOMAIN Catalog
         => \A i \in 1..Len(calls) : calls[i] \notin WarehouseCalls
    /\ \A i \in 1..Len(calls) :
         calls[i] \in WarehouseCalls => \E j \in 1..(i - 1) : calls[j] = "loadQuery"

-----------------------------------------------------------------------------
(* Redaction of the domainkey: C5 *)

-----------------------------------------------------------------------------
(* Failures: C6, C7 *)

IsSuffix(m, b) == Len(b) >= Len(m) /\ SubSeq(b, Len(b) - Len(m) + 1, Len(b)) = m

\* C6, as stated: when a stage has failed (credentials, dataset lookup,
\* template load, or an error of the stream) by the time runExec resumes, the
\* caller receives an error that carries the message of the error raised, and
\* none of the accumulated rows.
C6_AsStated ==
    [][(pc = "awaitExecute" /\ pc' = "done" /\ raised # <<>>)
          => /\ response'.kind = "error"
             /\ IsSuffix(raised[1].error.message, response'.body)]_vars

\* C7, as stated: a failure of the dataset lookup or of the query stream is
\* surfaced with the status code of the error raised, 500 when it has none.
C7_AsStated ==
    pc = "done"
        => \A i \in 1..Len(raised) :
             raised[i].stage \in {"dataset.get", "stream"}
                => response.status = IF "statusCode" \in DOMAIN raised[i].error
                                     THEN raised[i].error.statusCode
                                     ELSE 500

-----------------------------------------------------------------------------
(* The domainkey run() resolves: C8 *)

\* the part of a header value after its last space
LastToken(h) ==
    LET spaces == {i \in 1..Len(h) : h[i] = " "}
    IN IF spaces = {} THEN h
       ELSE SubSeq(h, (CHOOSE i \in spaces : \A j \in spaces : j <= i) + 1, Len(h))

\* C8: once run() has prepared the parameters, domainkey is present: the last
\* space-separated token of the authorization header when the request has
\* one, else the caller's domainkey when it is a non-empty value, else 'secret'.
C8_DomainkeyResolved ==
    pc # "run"
        => /\ KeyDomainkey \in DOMAIN params
           /\ params[KeyDomainkey] =
                IF "authorization" \in DOMAIN request.headers
                THEN LastToken(request.headers["authorization"])
                ELSE IF KeyDomainkey \in DOMAIN request.data
                        /\ request.data[KeyDomainkey] # <<>>
                     THEN request.data[KeyDomainkey]
                     ELSE <<"s", "e", "c", "r", "e", "t">>

\* a header of three tokens wins over the domainkey the caller supplied
C8_Witness ==
    /\ pc = "runExec"
    /\ "authorization" \in DOMAIN request.headers
    /\ Len(Split(request.headers["authorization"], <<" ">>)) = 3
    /\ KeyDomainkey \in DOMAIN request.data
    /\ request.data[KeyDomainkey] = <<"k", "3">>
    /\ params[KeyDomainkey] = <<"k", "2">>

-----------------------------------------------------------------------------
(* The header parser: C9 *)

BodyLines == Split(body, <<"\n">>)

\* a line of the form `--- key: value`: the marker, a space, a non-empty key,
\* the delimiter ': ', the value
WellFormed(l) ==
    /\ StartsWith(l, <<"-", "-", "-", " ">>)
    /\ IndexOf(SubSeq(l, 5, Len(l)), <<":", " ">>) > 0

KeyOf(l) == LET rest == SubSeq(l, 5, Len(l))
            IN SubSeq(rest, 1, IndexOf(rest, <<":", " ">>))

ValueOf(l) == LET rest == SubSeq(l, 5, Len(l))
              IN SubSeq(rest, IndexOf(rest, <<":", " ">>) + 3, Len(rest))

EntriesOf(ls) == [i \in 1..Len(ls) |-> [key |-> KeyOf(ls[i]), value |-> ValueOf(ls[i])]]

\* a line that begins with the marker and contains a colon
Contributes(l) ==
    /\ Len(l) >= 3
    /\ \A i \in 1..3 : l[i] = "-"
    /\ \E i \in 1..Len(l) : l[i] = ":"

\* C9, as stated: when the lines that begin with `---` and contain a colon
\* are N well-formed lines, the result has exactly N entries, in order of
\* appearance, each mapping the line's key to its value; no other line
\* contributes.
C9_AsStated ==
    pc = "parsed"
        => LET ls == SelectSeq(BodyLines, Contributes)
           IN (\A i \in 1..Len(ls) : WellFormed(ls[i])) => extra = EntriesOf(ls)

\* a well-formed line whose value holds no further ': ' and whose key is
\* neither a number nor __proto__
Plain(l) ==
    /\ WellFormed(l)
    /\ IndexOf(ValueOf(l), <<":", " ">>) = -1
    /\ \E i \in 1..Len(KeyOf(l)) : KeyOf(l)[i] \notin Digits
    /\ KeyOf(l) # <<"_", "_", "p", "r", "o", "t", "o", "_", "_">>

\* C9, amended: when the lines that begin with `---` and contain a colon are
\* N well-formed `--- key: value` lines with pairwise distinct keys, none a
\* number or __proto__, and values without a further ': ', the result has exactly N entries,
\* in order of appearance, each mapping the line's key to its value; lines
\* that do not begin with `---` or contain no colon contribute nothing.
C9_PlainLinesParsed ==
    pc = "parsed"
        => LET ls == SelectSeq(BodyLines, Contributes)
           IN ((\A i \in 1..Len(ls) : Plain(ls[i]))
               /\ (\A i, j \in 1..Len(ls) : KeyOf(ls[i]) = KeyOf(ls[j]) => i = j))
                 => extra = EntriesOf(ls)

\* two plain lines around a marker-less one: two entries, in order
C9_Witness ==
    /\ pc = "parsed"
    /\ BodyLines = <<LineKeyB, LineMarkerless, LineKeyA>>
    /\ extra = <<[key |-> <<"b">>, value |-> <<"y">>], [key |-> <<"a">>, value |-> <<"x">>]>>

-----------------------------------------------------------------------------
(* Declared defaults: C10 *)

\* C10, as stated: every parameter the template's header declares (the
\* domainkey aside, which run() resolves) is bound for the warehouse query: to
\* the caller's value when the caller supplied a non-empty one, else to the
\* declared default.
C10_AsStated ==
    streamArgs.created
        => LET declared == getExtraParameters(Catalog[request.query])
           IN \A i \in 1..Len(declared) :
                LET k == declared[i].key
                IN k # KeyDomainkey
                     => /\ k \in DOMAIN streamArgs.params
                        /\ streamArgs.params[k] =
                             IF k \in DOMAIN request.data /\ request.data[k] # <<>>
                             THEN request.data[k]
                             ELSE declared[i].value

-----------------------------------------------------------------------------
(* The .txt request: C11 *)

\* C11: a request whose path ends in .txt is answered by queryInfo alone: no
\* credential is acquired, no warehouse call is made, no stream is opened,
\* execute's promise is never created or settled and nothing is stored or
\* logged; the response, once there, is the declared parameters of the
\* template (an error when there is no such template).
C11_InfoExecutesNothing ==
    request.ext = ".txt"
        => /\ calls = <<>>
           /\ execParams = <<>>
           /\ ~streamArgs.created
           /\ stream = "none"
           /\ emitted = <<>>
           /\ promise.state = "pending"
           /\ bucket = <<>>
           /\ log = <<>>
           /\ pc \in {"run", "runExec", "done"}
           /\ pc = "done"
                => IF request.query \in {"rum-attribution", "rum-pageviews"}
                   THEN /\ response.kind = "info"
                        /\ Len(response.body) >= 3
                        /\ response.body[1].key = <<"u", "r", "l">>
                   ELSE response.kind = "error"

\* the .txt request of the archiving identity for the archived query, answered
C11_Witness ==
    /\ request.ext = ".txt"
    /\ request.query = "rum-pageviews"
    /\ request.invoker = "helix3/admin"
    /\ pc = "done"
    /\ response.kind = "info"

-----------------------------------------------------------------------------
(* Archival of the result: C12, C13 *)

PutAttempted == \E i \in 1..Len(calls) : calls[i] = "bucket.put"

\* C12: a failed write to object storage is logged and goes no further:
\* storeResult returns false, nothing is stored, and runExec answers 200 with
\* the JSON body it answers with when the write succeeds, the body that
\* depends on the rows, the request parameters and the truncation alone.
C12_PutFailureSwallowed ==
    /\ log # <<>>
         => /\ log = <<"failed to store result">>
            /\ PutAttempted
            /\ stored = "false"
            /\ bucket = <<>>
    /\ PutAttempted
         => /\ pc = "done"
            /\ response.kind = "json"
            /\ response.status = 200
            /\ response.body = sshonify(results, Without(execParams, KeyDomainkey),
                                        promise.truncated)
            /\ bucket # <<>> => bucket = <<[query |-> request.query,
                                           content |-> response.body]>>

\* a write failed after rows were collected, and the response is the 200
C12_Witness ==
    /\ log # <<>>
    /\ Len(results) > 0
    /\ response.kind = "json"
    /\ response.status = 200

\* C13: the write to object storage is attempted only for a query of
\* STORED_QUERIES, which holds rum-pageviews alone, on behalf of the invoker
\* helix3/admin; called for anything else, storeResult returns false and
\* object storage is not touched.
C13_PutOnlyForStoredQueryAndAdmin ==
    LET eligible == request.query = "rum-pageviews" /\ request.invoker = "helix3/admin"
    IN /\ (PutAttempted \/ bucket # <<>> \/ log # <<>> \/ stored = "true") => eligible
       /\ (stored # "none" /\ ~eligible)
            => stored = "false" /\ ~PutAttempted /\ bucket = <<>> /\ log = <<>>
       /\ (stored # "none" /\ eligible) => PutAttempted

\* the archived query, on behalf of the archiving identity, has been written
C13_Witness ==
    /\ stored = "true"
    /\ Len(bucket) = 1
    /\ bucket[1].query = "rum-pageviews"
    /\ request.invoker = "helix3/admin"

-----------------------------------------------------------------------------
(* The metadata sentinel: C14 *)

Sentinel == <<"#", " ", "h", "l", "x", ":", "m", "e", "t", "a", "d", "a", "t", "a">>

HasSentinel(text) ==
    \E i \in 1..Len(text) :
      /\ i + Len(Sentinel) - 1 <= Len(text)
      /\ SubSeq(text, i, i + Len(Sentinel) - 1) = Sentinel

StreamsCreated == Cardinality({i \in 1..Len(calls) : calls[i] = "createQueryStream"})

\* C14, as stated: a template with the # hlx:metadata sentinel is run as two
\* statements, the primary query and the metadata query, neither of them the
\* whole template, both with the same bound parameters; a template without
\* the sentinel is run as one statement, the template itself.
C14_AsStated ==
    streamArgs.created
        => IF HasSentinel(Catalog[request.query])
           THEN /\ StreamsCreated = 2
                /\ ~HasSentinel(streamArgs.query)
           ELSE /\ StreamsCreated = 1
                /\ streamArgs.query = Catalog[request.query]

-----------------------------------------------------------------------------
(* The promise of execute and its results: C16, C17, C18 *)

Truncated == promise.state = "resolved" /\ promise.truncated

\* C16: the promise settles once: after it is settled no event of the stream
\* changes it (a truncation stays a truncation, a rejection never becomes a
\* success), and after it is resolved no event changes the rows of results.
C16_SettledOnce ==
    [][/\ promise.state # "pending" => promise' = promise
       /\ promise.state = "resolved" => results' = results]_vars

\* after the truncation, a further data event, an error and the end arrived
C16_Witness ==
    /\ Truncated
    /\ stream = "erroredEnded"
    /\ Len(emitted) >= Len(results) + 2
    /\ pc = "awaitExecute"

\* C17: when execute resolves with truncated = true, the number n of rows
\* returned is the smallest n >= 10 with (size of the first 10 rows / 10) * n
\* over the budget of 0.9 MiB; the first 10 rows emitted are accepted whatever
\* their size, and a stream of 10 rows or fewer is not truncated.
C17_TruncatedCountIsSmallest ==
    /\ Truncated
         => /\ Len(results) >= 10
            /\ LET sampled == JsonSize(SubSeq(results, 1, 10))
               IN /\ sampled * Len(results) > 1024 * 1024 * 9
                  /\ \A m \in 10..(Len(results) - 1) : sampled * m <= 1024 * 1024 * 9
    /\ Len(emitted) <= 10 => results = emitted /\ ~Truncated
    /\ Len(emitted) > 10 => SubSeq(results, 1, 10) = SubSeq(emitted, 1, 10)

\* ten large rows, over the budget together from the fifth on, all accepted,
\* and the truncation at the eleventh
C17_Witness ==
    /\ Truncated
    /\ Len(results) = 10
    /\ \A i \in 1..10 : results[i] = 200000
    /\ pc = "done"

\* C18: results is at every point the rows emitted so far, in arrival order,
\* up to some row; the row whose arrival triggers the truncation is not in
\* results.
C18_ResultsPrefix ==
    /\ Len(results) <= Len(emitted)
    /\ results = SubSeq(emitted, 1, Len(results))
    /\ Truncated => Len(results) < Len(emitted)

\* a small row triggered the truncation of ten large ones and is not returned
C18_Witness ==
    /\ Truncated
    /\ Len(emitted) = 11
    /\ emitted[11] = 1000
    /\ Len(results) = 10
    /\ results[10] = 200000
    /\ stream = "ended"

-----------------------------------------------------------------------------
(* Concurrent invocations: C15 *)

\* the row counts at which a stream that emitted em, taken alone, is truncated
AloneCrossings(em) ==
    {n \in 10..(Len(em) - 1) : JsonSize(SubSeq(em, 1, 10)) * n > 1024 * 1024 * 9}

\* what an invocation holds after its stream, taken alone, emitted em
AloneResults(em) ==
    IF AloneCrossings(em) = {}
    THEN em
    ELSE SubSeq(em, 1, CHOOSE n \in AloneCrossings(em) :
                         \A m \in AloneCrossings(em) : n <= m)

\* the state of its promise, st the state of its stream
AloneState(em, st) ==
    IF AloneCrossings(em) # {} THEN "resolved"
    ELSE IF st = "open" THEN "pending"
    ELSE IF st = "ended" THEN "resolved"
    ELSE "rejected"

AsAlone(em, st, res, p) ==
    /\ res = AloneResults(em)
    /\ p.state = AloneState(em, st)
    /\ p.state = "resolved" => (p.truncated <=> AloneCrossings(em) # {})

\* C15: two invocations of execute share no state: however their stream
\* events interleave, the results and the truncated flag of each are those
\* its own events produce when it runs alone.
C15_InvocationsIndependent ==
    /\ AsAlone(emitted, stream, results, promise)
    /\ AsAlone(other.emitted, other.stream, other.results, other.promise)

\* one invocation truncated at ten large rows while the other returned more
\* than ten small ones whole
C15_Witness ==
    /\ Truncated
    /\ Len(results) = 10
    /\ other.stream = "ended"
    /\ other.promise.state = "resolved"
    /\ ~other.promise.truncated
    /\ Len(other.results) > 10

-----------------------------------------------------------------------------
(* Errors become responses: C19 *)

\* the errors the catch of runExec has seen
Caught ==
    (IF promise.state = "rejected" THEN {promise.error} ELSE {})
    \cup (IF request.ext = ".txt" /\ pc = "done" /\ ~loadQuery(request.query).ok
          THEN {loadQuery(request.query).error} ELSE {})
    \cup (IF stored = "thrown" THEN {PutError} ELSE {})

=============================================================================
